---- MODULE Spec2Model ----
(***************************************************************************)
(* DebateBot backend (src/backend/main.py, src/main.py): the request       *)
(* handlers of the FastAPI application modelled as a state machine.        *)
(*                                                                         *)
(* Texts are sequences of one-character strings (longer strings stand for  *)
(* fixed template literals).  Scores are exact decimals: metrics in        *)
(* hundredths, argument strength in ten-thousandths, the feedback          *)
(* argumentStrength in thousandths.  The handlers are stateless and the    *)
(* blocking llm.invoke serialises them, so one request is in progress at   *)
(* a time; every request starts from fresh locals.                         *)
(***************************************************************************)
EXTENDS Integers, Sequences, FiniteSets, TLC

VARIABLES ep, req, pc, calls, locals, resp

vars == <<ep, req, pc, calls, locals, resp>>

(***************************************************************************)
(* Bounds of the model.                                                    *)
(***************************************************************************)
MaxTextLen == 6        \* longest LLM counter-argument text, in characters
MaxHistory == 2        \* longest argument_history of a live-counter request
MaxWordsIn == 27       \* most words in the first sentence given to get_summary

(***************************************************************************)
(* Python string helpers.                                                  *)
(***************************************************************************)
Whitespace == {" ", "\n"}

Take(s, n) == SubSeq(s, 1, IF n < Len(s) THEN n ELSE Len(s))

Min(S) == CHOOSE i \in S : \A j \in S : i <= j

Max(S) == CHOOSE i \in S : \A j \in S : i >= j

\* str.strip(): from the first to the last character that is not whitespace
Strip(s) ==
    LET keep == {i \in 1..Len(s) : s[i] \notin Whitespace} IN
    IF keep = {} THEN <<>> ELSE SubSeq(s, Min(keep), Max(keep))

\* str.find(sep, from): the first index at or after from where sep occurs,
\* 0 when there is none
Find(s, sep, from) ==
    LET hits == {i \in from..(Len(s) - Len(sep) + 1) :
                    SubSeq(s, i, i + Len(sep) - 1) = sep}
    IN  IF hits = {} THEN 0 ELSE Min(hits)

\* str.split(sep) for a non-empty separator: left-to-right, non-overlapping,
\* always at least one piece; SplitFrom cuts the rest of s from index from
RECURSIVE SplitFrom(_, _, _)
SplitFrom(s, sep, from) ==
    LET c == Find(s, sep, from) IN
    IF c = 0 THEN <<SubSeq(s, from, Len(s))>>
    ELSE <<SubSeq(s, from, c - 1)>> \o SplitFrom(s, sep, c + Len(sep))

SplitSep(s, sep) == SplitFrom(s, sep, 1)

\* str.split() without argument: the maximal runs of characters that are
\* not whitespace, no empty pieces
RECURSIVE SplitWsFrom(_, _)
SplitWsFrom(s, from) ==
    LET word == {i \in from..Len(s) : s[i] \notin Whitespace} IN
    IF word = {} THEN <<>>
    ELSE LET a == Min(word)
             gaps == {i \in a..Len(s) : s[i] \in Whitespace}
             b == IF gaps = {} THEN Len(s) + 1 ELSE Min(gaps)
         IN  <<SubSeq(s, a, b - 1)>> \o SplitWsFrom(s, b)

SplitWs(s) == SplitWsFrom(s, 1)

\* sep.join(parts)
RECURSIVE Join(_, _)
Join(parts, sep) ==
    IF parts = <<>> THEN <<>>
    ELSE IF Len(parts) = 1 THEN parts[1]
    ELSE parts[1] \o sep \o Join(Tail(parts), sep)

Ellipsis == <<".", ".", ".">>

(***************************************************************************)
(* get_summary                                                             *)
(***************************************************************************)
max_words == 25

SummaryCut == 150

get_summary(content) ==
    LET sentences == SplitSep(content, <<".">>) IN
    IF sentences # <<>>
    THEN LET first_sentence == Strip(sentences[1])
             words == SplitWs(first_sentence)
         IN  IF Len(words) > max_words
             THEN Join(Take(words, max_words), <<" ">>) \o Ellipsis
             ELSE first_sentence \o <<".">>
    ELSE Take(content, SummaryCut) \o Ellipsis

(***************************************************************************)
(* Common state                                                            *)
(***************************************************************************)
Unset == <<"<unset>">>

NoLocals ==
    [prop_opening |-> Unset, opp_opening |-> Unset,
     prop_rebuttal |-> Unset, opp_rebuttal |-> Unset,
     prop_history |-> Unset, opp_history |-> Unset,
     prop_closing |-> Unset, opp_closing |-> Unset]

NoReq == [none |-> TRUE]

NoResp == [status |-> 0]

\* an exception that leaves the handler: the framework answers with a
\* server error and no payload
ServerError == [status |-> 500]

\* the outcome of one llm.invoke: still running, an exception, or the text
\* of response.content
Pending == [kind |-> "pending"]

Raised == [kind |-> "raise"]

Content(text) == [kind |-> "content", text |-> text]

Topics == {"motion1", "motion2"}

Init ==
    /\ ep = "none"
    /\ req = NoReq
    /\ pc = "idle"
    /\ calls = <<>>
    /\ locals = NoLocals
    /\ resp = NoResp

\* a handler is entered only when no other request is being handled
Free == pc = "idle"

\* the framework sends the response (the payload, or the server error of an
\* uncaught exception); the handler's frame is gone and nothing of the
\* request is kept
Respond ==
    /\ pc \in {"done", "error"}
    /\ ep' = "none"
    /\ req' = NoReq
    /\ pc' = "idle"
    /\ calls' = <<>>
    /\ locals' = NoLocals
    /\ resp' = NoResp

(***************************************************************************)
(* /api/debate : generate_argument and run_debate                          *)
(***************************************************************************)
DebateTexts == { <<"a", ".">>, <<"b", " ", "c">> }

\* the prompt generate_argument renders: the template chosen by stage and
\* the fields embedded in it (the opening template does not embed history)
ArgumentPrompt(topic, side, stage, history) ==
    IF stage = "opening"
    THEN [tpl |-> "opening", topic |-> topic, side |-> side, history |-> <<>>]
    ELSE IF stage = "rebuttal"
    THEN [tpl |-> "rebuttal", topic |-> topic, side |-> side, history |-> history]
    ELSE [tpl |-> "closing", topic |-> topic, side |-> side, history |-> history]

\* prop_history with the proposition's own rebuttal added
prop_history_WithOwnRebuttal(L) ==
    <<"Your Opening: ">> \o L.prop_opening
        \o <<"\n", "Your Rebuttal: ">> \o L.prop_rebuttal
        \o <<"\n", "Opponent's Rebuttal: ">> \o L.opp_rebuttal

prop_history(L) ==
    <<"Your Opening: ">> \o L.prop_opening
        \o <<"\n", "Opponent's Rebuttal: ">> \o L.opp_rebuttal

opp_history(L) ==
    <<"Your Opening: ">> \o L.opp_opening
        \o <<"\n", "Opponent's Rebuttal: ">> \o L.prop_rebuttal

\* DebateCall with each rebuttal given its own side's opening
DebateCall_OwnOpening(k, L) ==
    CASE k = 1 -> [side |-> "Proposition", stage |-> "opening",
                   history |-> <<>>, target |-> "prop_opening"]
      [] k = 2 -> [side |-> "Opposition", stage |-> "opening",
                   history |-> <<>>, target |-> "opp_opening"]
      [] k = 3 -> [side |-> "Proposition", stage |-> "rebuttal",
                   history |-> L.prop_opening, target |-> "prop_rebuttal"]
      [] k = 4 -> [side |-> "Opposition", stage |-> "rebuttal",
                   history |-> L.opp_opening, target |-> "opp_rebuttal"]
      [] k = 5 -> [side |-> "Proposition", stage |-> "closing",
                   history |-> L.prop_history, target |-> "prop_closing"]
      [] k = 6 -> [side |-> "Opposition", stage |-> "closing",
                   history |-> L.opp_history, target |-> "opp_closing"]

\* the k-th generate_argument call of run_debate: its arguments, read from
\* the locals L, and the local its result is assigned to
DebateCall(k, L) ==
    CASE k = 1 -> [side |-> "Proposition", stage |-> "opening",
                   history |-> <<>>, target |-> "prop_opening"]
      [] k = 2 -> [side |-> "Opposition", stage |-> "opening",
                   history |-> <<>>, target |-> "opp_opening"]
      [] k = 3 -> [side |-> "Proposition", stage |-> "rebuttal",
                   history |-> L.opp_opening, target |-> "prop_rebuttal"]
      [] k = 4 -> [side |-> "Opposition", stage |-> "rebuttal",
                   history |-> L.prop_opening, target |-> "opp_rebuttal"]
      [] k = 5 -> [side |-> "Proposition", stage |-> "closing",
                   history |-> L.prop_history, target |-> "prop_closing"]
      [] k = 6 -> [side |-> "Opposition", stage |-> "closing",
                   history |-> L.opp_history, target |-> "opp_closing"]

NumDebateCalls == 6

Stage(full) == [summary |-> get_summary(full), full |-> full]

DebatePayload(topic, L) ==
    [topic |-> topic,
     proposition |-> [opening |-> Stage(L.prop_opening),
                      rebuttal |-> Stage(L.prop_rebuttal),
                      closing |-> Stage(L.prop_closing)],
     opposition |-> [opening |-> Stage(L.opp_opening),
                     rebuttal |-> Stage(L.opp_rebuttal),
                     closing |-> Stage(L.opp_closing)]]

\* POST /api/debate arrives
DebateStart ==
    /\ Free
    /\ \E topic \in Topics : req' = [topic |-> topic]
    /\ ep' = "debate"
    /\ pc' = "call"
    /\ calls' = <<>>
    /\ locals' = NoLocals
    /\ resp' = NoResp

\* run_debate reaches its next generate_argument call: the prompt is
\* rendered and llm.invoke entered
DebateInvoke ==
    /\ ep = "debate"
    /\ pc = "call"
    /\ Len(calls) < NumDebateCalls
    /\ LET c == DebateCall(Len(calls) + 1, locals) IN
       calls' = Append(calls,
                   [prompt |-> ArgumentPrompt(req.topic, c.side, c.stage, c.history),
                    result |-> Pending])
    /\ pc' = "wait"
    /\ UNCHANGED <<ep, req, locals, resp>>

\* llm.invoke returns: the text is assigned to the call's local; after the
\* fourth call the two closing histories are built
DebateLLMReturn ==
    /\ ep = "debate"
    /\ pc = "wait"
    /\ \E text \in DebateTexts :
         LET k == Len(calls)
             L1 == [locals EXCEPT ![DebateCall(k, locals).target] = text]
             L2 == IF k = 4
                   THEN [L1 EXCEPT !.prop_history = prop_history(L1),
                                   !.opp_history = opp_history(L1)]
                   ELSE L1
         IN  /\ calls' = [calls EXCEPT ![k].result = Content(text)]
             /\ locals' = L2
             /\ pc' = IF k = NumDebateCalls THEN "return" ELSE "call"
    /\ UNCHANGED <<ep, req, resp>>

\* DebateLLMRaise with the exception swallowed and an empty text returned
DebateLLMRaise_Swallowed ==
    /\ ep = "debate"
    /\ pc = "wait"
    /\ calls' = [calls EXCEPT ![Len(calls)].result = Raised]
    /\ locals' = [locals EXCEPT ![DebateCall(Len(calls), locals).target] = <<>>]
    /\ pc' = IF Len(calls) = NumDebateCalls THEN "return" ELSE "call"
    /\ UNCHANGED <<ep, req, resp>>

\* llm.invoke raises: nothing in generate_argument or run_debate catches it
DebateLLMRaise ==
    /\ ep = "debate"
    /\ pc = "wait"
    /\ calls' = [calls EXCEPT ![Len(calls)].result = Raised]
    /\ pc' = "error"
    /\ resp' = ServerError
    /\ UNCHANGED <<ep, req, locals>>

\* the return statement of run_debate
DebateReturn ==
    /\ ep = "debate"
    /\ pc = "return"
    /\ resp' = [status |-> 200, body |-> DebatePayload(req.topic, locals)]
    /\ pc' = "done"
    /\ UNCHANGED <<ep, req, calls, locals>>

(***************************************************************************)
(* JSON values and Python float arithmetic                                 *)
(*                                                                         *)
(* A JSON value is [k, v]: k its kind, v its number in hundredths (0 for   *)
(* the kinds that carry none).  json.loads accepts NaN, Infinity and       *)
(* -Infinity.  A Python float is a JSON value of kind num, nan, inf or     *)
(* ninf.                                                                   *)
(***************************************************************************)
Num(v) == [k |-> "num", v |-> v]

JNaN == [k |-> "nan", v |-> 0]

JInf == [k |-> "inf", v |-> 0]

JNegInf == [k |-> "ninf", v |-> 0]

JStr == [k |-> "str", v |-> 0]          \* a string that is not a number

JNull == [k |-> "null", v |-> 0]

JList == [k |-> "list", v |-> 0]

Missing == [k |-> "missing", v |-> 0]   \* the key is absent from the dict

\* float(x): the value of a number, or an exception (ValueError for a
\* non-numeric string, TypeError for None or a list)
PyFloat(j) ==
    CASE j.k \in {"num", "nan", "inf", "ninf"} -> [ok |-> TRUE, f |-> j]
      [] OTHER -> [ok |-> FALSE, f |-> Num(0)]

\* a < b on floats: every comparison with NaN is false
FloatLt(a, b) ==
    CASE a.k = "nan" \/ b.k = "nan" -> FALSE
      [] a.k = "ninf" -> b.k # "ninf"
      [] a.k = "inf" -> FALSE
      [] b.k = "inf" -> TRUE
      [] b.k = "ninf" -> FALSE
      [] OTHER -> a.v < b.v

\* min(a, b) keeps a unless b < a; max(a, b) keeps a unless b > a
PyMin(a, b) == IF FloatLt(b, a) THEN b ELSE a

PyMax(a, b) == IF FloatLt(a, b) THEN b ELSE a

\* Clamp01 without the upper bound
Clamp01_NoUpperBound(x) == PyMax(Num(0), x)

\* max(0, min(1, x))
Clamp01(x) == PyMax(Num(0), PyMin(Num(100), x))

\* dict.get(key, default)
Get(d, key, default) == IF d[key].k = "missing" THEN default ELSE d[key]

(***************************************************************************)
(* LLM replies that are searched for a JSON object                         *)
(*                                                                         *)
(* A reply is its text, over "p" (a character other than a brace), "{",    *)
(* "}" and "M" (the text of the members of one JSON object, brace-free),   *)
(* together with the dict the members denote.                              *)
(***************************************************************************)
\* re.search(r'\{[\s\S]*\}', text): from the first "{" to the last "}"
\* after it; <<>> stands for no match (a match is never empty)
FirstIdx(text, c) ==
    IF \E i \in 1..Len(text) : text[i] = c
    THEN CHOOSE i \in 1..Len(text) :
            text[i] = c /\ \A j \in 1..(i - 1) : text[j] # c
    ELSE 0

LastIdx(text, c) ==
    IF \E i \in 1..Len(text) : text[i] = c
    THEN CHOOSE i \in 1..Len(text) :
            text[i] = c /\ \A j \in (i + 1)..Len(text) : text[j] # c
    ELSE 0

JsonMatch(text) ==
    LET a == FirstIdx(text, "{")
        b == LastIdx(text, "}")
    IN  IF a > 0 /\ b > a THEN SubSeq(text, a, b) ELSE <<>>

\* json.loads(match): a dict, or JSONDecodeError
JsonLoads(match, members, empty) ==
    IF match = <<"{", "M", "}">> THEN [ok |-> TRUE, d |-> members]
    ELSE IF match = <<"{", "}">> THEN [ok |-> TRUE, d |-> empty]
    ELSE [ok |-> FALSE, d |-> empty]

ReplyTexts ==
    { <<"p">>, <<>>, <<"{", "M">>, <<"}", "p", "{">>,
      <<"{", "p", "}">>, <<"{", "}">>, <<"{", "M", "}", "p", "}">>,
      <<"{", "M", "}">>, <<"p", "{", "M", "}", "p">> }

Parses(text) == JsonMatch(text) = <<"{", "M", "}">>

(***************************************************************************)
(* /api/score-argument                                                     *)
(***************************************************************************)
MetricVals == {Missing, Num(-50), Num(40), Num(150), JNaN, JInf, JNegInf, JStr}

EmptyScores ==
    [coherence |-> Missing, relevance |-> Missing,
     evidence_strength |-> Missing, fallacy_penalty |-> Missing,
     sentence_count |-> Missing, evidence_count |-> Missing,
     fallacies |-> Missing]

\* the dicts the model may send back
ScoreDicts ==
    { [coherence |-> c, relevance |-> r, evidence_strength |-> e,
       fallacy_penalty |-> f,
       sentence_count |-> IF x THEN Num(300) ELSE Missing,
       evidence_count |-> IF x THEN Num(100) ELSE Missing,
       fallacies |-> IF x THEN JList ELSE Missing] :
        c \in MetricVals, r \in MetricVals, e \in MetricVals,
        f \in MetricVals, x \in BOOLEAN }

\* the members matter only in a reply whose match is one whole object
ScoreReplies ==
    { [kind |-> "content", text |-> t, members |-> m] :
        t \in {u \in ReplyTexts : Parses(u)}, m \in ScoreDicts }
    \cup { [kind |-> "content", text |-> t, members |-> EmptyScores] :
             t \in {u \in ReplyTexts : ~Parses(u)} }
    \cup { Raised }

ScoreArguments == { <<"a", ".", " ", "b", ".">>, <<"a">> }

\* len(argument.split('.'))
SentenceCount(argument) == Num(100 * Len(SplitSep(argument, <<".">>)))

\* DefaultScores with evidence_strength 0.7 in place of 0.6
DefaultScores_Evidence07(argument) ==
    [coherence |-> Num(70), relevance |-> Num(70),
     evidence_strength |-> Num(70), fallacy_penalty |-> Num(10),
     sentence_count |-> SentenceCount(argument),
     evidence_count |-> Num(0),
     fallacies |-> JList]

\* the scores substituted when the reply holds no JSON object
DefaultScores(argument) ==
    [coherence |-> Num(70), relevance |-> Num(70),
     evidence_strength |-> Num(60), fallacy_penalty |-> Num(10),
     sentence_count |-> SentenceCount(argument),
     evidence_count |-> Num(0),
     fallacies |-> JList]

w1 == 25

w2 == 30

w3 == 30

w4 == 15

\* S = w1*C + w2*R + w3*E - w4*F, in ten-thousandths
WeightedSum(c, r, e, f) == w1 * c + w2 * r + w3 * e - w4 * f

\* max(0, min(1, argument_strength)), in ten-thousandths
ClampStrength(s) == IF s > 10000 THEN 10000 ELSE IF s < 0 THEN 0 ELSE s

\* the payload of the except branch
FallbackStrength == 7200

ScoreFallback(argument) ==
    [coherence |-> 70, relevance |-> 70, evidenceStrength |-> 60,
     fallacyPenalty |-> 10, argumentStrength |-> FallbackStrength,
     details |-> [sentenceCount |-> SentenceCount(argument),
                  evidenceCount |-> Num(0),
                  fallaciesDetected |-> JList]]

\* the body of the try block once the scores dict is known
ScoreFromDict(scores, argument) ==
    LET fc == PyFloat(Get(scores, "coherence", Num(70)))
        fr == PyFloat(Get(scores, "relevance", Num(70)))
        fe == PyFloat(Get(scores, "evidence_strength", Num(60)))
        ff == PyFloat(Get(scores, "fallacy_penalty", Num(10)))
    IN  IF fc.ok /\ fr.ok /\ fe.ok /\ ff.ok
        THEN LET c == Clamp01(fc.f).v
                 r == Clamp01(fr.f).v
                 e == Clamp01(fe.f).v
                 f == Clamp01(ff.f).v
             IN  [coherence |-> c, relevance |-> r, evidenceStrength |-> e,
                  fallacyPenalty |-> f,
                  argumentStrength |-> ClampStrength(WeightedSum(c, r, e, f)),
                  details |->
                    [sentenceCount |->
                        Get(scores, "sentence_count", SentenceCount(argument)),
                     evidenceCount |-> Get(scores, "evidence_count", Num(0)),
                     fallaciesDetected |-> Get(scores, "fallacies", JList)]]
        ELSE ScoreFallback(argument)

\* the payload score_argument returns for an argument and an LLM outcome
score_argument(argument, reply) ==
    IF reply.kind = "raise" THEN ScoreFallback(argument)
    ELSE LET json_match == JsonMatch(reply.text) IN
         IF json_match # <<>>
         THEN LET loaded == JsonLoads(json_match, reply.members, EmptyScores) IN
              IF loaded.ok THEN ScoreFromDict(loaded.d, argument)
              ELSE ScoreFallback(argument)
         ELSE ScoreFromDict(DefaultScores(argument), argument)

ScoringPrompt(topic, argument) ==
    [tpl |-> "scoring", topic |-> topic, argument |-> argument]

\* POST /api/score-argument, handled to its return
ScoreArgument ==
    /\ Free
    /\ \E argument \in ScoreArguments, topic \in Topics, reply \in ScoreReplies :
         /\ req' = [argument |-> argument, topic |-> topic]
         /\ calls' = <<[prompt |-> ScoringPrompt(topic, argument),
                        result |-> reply]>>
         /\ resp' = [status |-> 200, body |-> score_argument(argument, reply)]
    /\ ep' = "score"
    /\ pc' = "done"
    /\ locals' = NoLocals

(***************************************************************************)
(* /api/get-feedback                                                       *)
(***************************************************************************)
\* x * 100 on IEEE-754 doubles, for x the double nearest to s/1000 with
\* s in 0..1000: the product is s/10 exactly or off by less than 1e-13;
\* FloatLow are the multiples of 5 where it falls below s/10
FloatLow == {145, 285, 290, 565, 570, 575, 580}

\* int(x * 100): truncation of the double product
IntTimes100(s) ==
    IF s % 10 = 0 /\ s \in FloatLow THEN (s \div 10) - 1 ELSE s \div 10

FbCoherence == {Missing, Num(50), Num(75)}

FbRelevance == {Missing, Num(50), Num(80)}

FbEvidence == {Missing, Num(50), Num(70)}

FbFallacy == {Missing, Num(10), Num(30)}

\* argumentStrength values, in thousandths
FbStrength == {Missing, Num(0), Num(290), Num(500), Num(557), Num(570),
               Num(700), Num(999), Num(1000)}

FbTargets == {0, 50, 90, 100}

EmptyFeedback == [type |-> "", message |-> [tpl |-> "", gap |-> 0], tips |-> <<>>]

\* a feedback object written by the model
LlmFeedback ==
    [type |-> "improvement", message |-> [tpl |-> "llm", gap |-> 0],
     tips |-> <<[metric |-> "llm", tip |-> "llm"]>>]

FeedbackReplies ==
    { [kind |-> "content", text |-> t,
       members |-> IF Parses(t) THEN LlmFeedback ELSE EmptyFeedback] :
        t \in ReplyTexts }
    \cup { Raised }

CoherenceTip == [metric |-> "Coherence", tip |-> "Connect your ideas more clearly."]

RelevanceTip == [metric |-> "Relevance", tip |-> "Stay focused on the debate topic."]

EvidenceTip == [metric |-> "Evidence", tip |-> "Add specific examples."]

LogicTip == [metric |-> "Logic", tip |-> "Avoid emotional appeals."]

OverallTip == [metric |-> "Overall", tip |-> "Add more depth and specificity."]

TipCap == 3

\* the tips list of the except branch, before the final slice
RuleTips(scores) ==
    LET t1 == IF Get(scores, "coherence", Num(100)).v < 75
              THEN <<CoherenceTip>> ELSE <<>>
        t2 == IF Get(scores, "relevance", Num(100)).v < 80
              THEN <<RelevanceTip>> ELSE <<>>
        t3 == IF Get(scores, "evidenceStrength", Num(100)).v < 70
              THEN <<EvidenceTip>> ELSE <<>>
        t4 == IF Get(scores, "fallacyPenalty", Num(0)).v > 10
              THEN <<LogicTip>> ELSE <<>>
        tips == t1 \o t2 \o t3 \o t4
    IN  IF tips = <<>> THEN <<OverallTip>> ELSE tips

\* FeedbackFallback without the slice tips[:3]
FeedbackFallback_NoCap(scores, gap) ==
    [type |-> "improvement",
     message |-> [tpl |-> "You need {gap} more points", gap |-> gap],
     tips |-> RuleTips(scores)]

\* the payload of the except branch
FeedbackFallback(scores, gap) ==
    [type |-> "improvement",
     message |-> [tpl |-> "You need {gap} more points", gap |-> gap],
     tips |-> Take(RuleTips(scores), TipCap)]

current_score(scores) == IntTimes100(Get(scores, "argumentStrength", Num(700)).v)

Gap(scores, target_score) == target_score - current_score(scores)

FeedbackPrompt(topic, argument, scores, target_score) ==
    [tpl |-> "feedback", topic |-> topic, argument |-> argument,
     coherence |-> Get(scores, "coherence", Num(70)).v,
     relevance |-> Get(scores, "relevance", Num(70)).v,
     evidenceStrength |-> Get(scores, "evidenceStrength", Num(60)).v,
     fallacyPenalty |-> Get(scores, "fallacyPenalty", Num(10)).v,
     current_score |-> current_score(scores),
     target_score |-> target_score,
     gap |-> Gap(scores, target_score)]

\* the payload get_feedback returns
get_feedback(scores, target_score, reply) ==
    LET gap == Gap(scores, target_score) IN
    IF reply.kind = "raise" THEN FeedbackFallback(scores, gap)
    ELSE LET json_match == JsonMatch(reply.text) IN
         IF json_match # <<>>
         THEN LET loaded == JsonLoads(json_match, reply.members, EmptyFeedback) IN
              IF loaded.ok THEN loaded.d ELSE FeedbackFallback(scores, gap)
         ELSE FeedbackFallback(scores, gap)

\* POST /api/get-feedback, handled to its return
GetFeedback ==
    /\ Free
    /\ \E c \in FbCoherence, r \in FbRelevance, e \in FbEvidence,
          f \in FbFallacy, s \in FbStrength, target_score \in FbTargets,
          reply \in FeedbackReplies :
         LET scores == [coherence |-> c, relevance |-> r, evidenceStrength |-> e,
                        fallacyPenalty |-> f, argumentStrength |-> s]
         IN  /\ req' = [argument |-> <<"a">>, topic |-> "motion1",
                        scores |-> scores, target_score |-> target_score]
             /\ calls' = <<[prompt |-> FeedbackPrompt("motion1", <<"a">>,
                                                      scores, target_score),
                            result |-> reply]>>
             /\ resp' = [status |-> 200,
                         body |-> get_feedback(scores, target_score, reply)]
    /\ ep' = "feedback"
    /\ pc' = "done"
    /\ locals' = NoLocals

(***************************************************************************)
(* /api/live-counter                                                       *)
(***************************************************************************)
Rounds == {"opening", "rebuttal", "closing", "final", "Opening", ""}

HistoryItems ==
    { [type |-> ty, text |-> "h"] : ty \in {"user", "ai", "moderator"} }

\* sequences over S of length at most n
SeqsUpTo(S, n) == UNION { [1..m -> S] : m \in 0..n }

Histories == SeqsUpTo(HistoryItems, MaxHistory)

CounterTexts == SeqsUpTo({"a", "\n"}, MaxTextLen)

RECURSIVE HistoryLines(_)
HistoryLines(history) ==
    IF history = <<>> THEN <<>>
    ELSE (IF Head(history).type = "user"
          THEN <<"USER'S ARGUMENT: ", Head(history).text, "\n">>
          ELSE <<"AI COUNTER: ", Head(history).text, "\n">>)
         \o HistoryLines(Tail(history))

history_context(history) ==
    IF history # <<>>
    THEN <<"\n\nPREVIOUS EXCHANGES:\n">> \o HistoryLines(history)
    ELSE <<>>

\* CounterPrompt with the round compared without regard to case
CounterPrompt_CaseFolded(topic, user_argument, round_type, history) ==
    LET tpl == IF round_type \in {"opening", "Opening"} THEN "counter_opening"
               ELSE IF round_type \in {"rebuttal", "Rebuttal"} THEN "counter_rebuttal"
               ELSE "counter_closing"
    IN  [tpl |-> tpl, topic |-> topic, user_argument |-> user_argument,
         history_context |-> history_context(history)]

\* the prompt of generate_counter: the template chosen by round_type and
\* the fields embedded in it
CounterPrompt(topic, user_argument, round_type, history) ==
    LET tpl == IF round_type = "opening" THEN "counter_opening"
               ELSE IF round_type = "rebuttal" THEN "counter_rebuttal"
               ELSE "counter_closing"
    IN  [tpl |-> tpl, topic |-> topic, user_argument |-> user_argument,
         history_context |-> history_context(history)]

\* the loop over enumerate(paragraphs), from index i (0-based)
RECURSIVE PointsFrom(_, _)
PointsFrom(paragraphs, i) ==
    IF i >= Len(paragraphs) THEN <<>>
    ELSE (IF Strip(paragraphs[i + 1]) # <<>>
          THEN <<[id |-> i + 1, text |-> Strip(paragraphs[i + 1])]>>
          ELSE <<>>)
         \o PointsFrom(paragraphs, i + 1)

Points(counter_text) ==
    LET paragraphs == SplitSep(Strip(counter_text), <<"\n", "\n">>)
        points == PointsFrom(paragraphs, 0)
    IN  IF points = <<>> THEN <<[id |-> 1, text |-> Strip(counter_text)]>>
        ELSE points

\* POST /api/live-counter, handled to its return, or to the exception of
\* llm.invoke, which nothing catches
GenerateCounter ==
    /\ Free
    /\ \E topic \in Topics, round_type \in Rounds, history \in Histories,
          reply \in {Content(t) : t \in CounterTexts} \cup {Raised} :
         /\ req' = [topic |-> topic, user_argument |-> <<"u">>,
                    round |-> round_type, argument_history |-> history]
         /\ calls' = <<[prompt |-> CounterPrompt(topic, <<"u">>, round_type, history),
                        result |-> reply]>>
         /\ IF reply.kind = "raise"
            THEN resp' = ServerError /\ pc' = "error"
            ELSE /\ resp' = [status |-> 200,
                             body |-> [counter_argument |-> reply.text,
                                       points |-> Points(reply.text)]]
                 /\ pc' = "done"
    /\ ep' = "counter"
    /\ locals' = NoLocals

(***************************************************************************)
(* get_summary applied to generated texts                                  *)
(***************************************************************************)
Word(i) == IF i % 2 = 1 THEN <<"a">> ELSE <<"b", "c">>

WordList(n) == [i \in 1..n |-> Word(i)]

SummaryContents ==
    { lead \o Join(WordList(n), sep) \o tail :
        lead \in {<<>>, <<" ">>},
        n \in 0..MaxWordsIn,
        sep \in {<<" ">>, <<" ", " ">>, <<"\n">>},
        tail \in {<<>>, <<".">>, <<".", " ", "d", ".">>, <<" ", ".", "d">>} }

\* one call of get_summary
Summarise ==
    /\ Free
    /\ \E content \in SummaryContents :
         /\ req' = [content |-> content]
         /\ resp' = [status |-> 200, body |-> [summary |-> get_summary(content)]]
    /\ ep' = "summary"
    /\ pc' = "done"
    /\ calls' = <<>>
    /\ locals' = NoLocals

Next ==
    \/ GetFeedback
    \/ GenerateCounter
    \/ Summarise
    \/ Respond
    \/ ScoreArgument
    \/ DebateStart
    \/ DebateInvoke
    \/ DebateLLMReturn
    \/ DebateLLMRaise
    \/ DebateReturn

Spec == Init /\ [][Next]_vars

(***************************************************************************)
(* Properties                                                              *)
(***************************************************************************)
ScoreReply == calls[1].result

\* the reply holds no brace-delimited substring
NoJsonReply(reply) == reply.kind = "content" /\ JsonMatch(reply.text) = <<>>

\* the reply holds a brace-delimited substring that json.loads rejects
BadJsonReply(reply) ==
    /\ reply.kind = "content"
    /\ JsonMatch(reply.text) # <<>>
    /\ JsonMatch(reply.text) \notin {<<"{", "M", "}">>, <<"{", "}">>}

\* C1: every request to the scoring endpoint, whatever the LLM call does,
\* ends in a normal payload whose four metrics and argumentStrength lie in
\* [0,1]; no failure reaches the caller.
C1_ScoresInUnitRange ==
    ep = "score" =>
        /\ pc = "done"
        /\ resp.status = 200
        /\ resp.body.coherence \in 0..100
        /\ resp.body.relevance \in 0..100
        /\ resp.body.evidenceStrength \in 0..100
        /\ resp.body.fallacyPenalty \in 0..100
        /\ resp.body.argumentStrength \in 0..10000

\* a parsed reply with metrics above 1, below 0 and NaN was clamped
C1_Witness ==
    /\ ep = "score"
    /\ ScoreReply.kind = "content"
    /\ Parses(ScoreReply.text)
    /\ ScoreReply.members.coherence = Num(150)
    /\ ScoreReply.members.relevance = JNaN
    /\ ScoreReply.members.evidence_strength = Num(40)
    /\ ScoreReply.members.fallacy_penalty = Num(-50)
    /\ resp.body.coherence = 100
    /\ resp.body.relevance = 100
    /\ resp.body.fallacyPenalty = 0

C3_StrengthIsWeightedSum ==
    ep = "score" =>
        LET b == resp.body
            sum == 25 * b.coherence + 30 * b.relevance
                     + 30 * b.evidenceStrength - 15 * b.fallacyPenalty
        IN  b.argumentStrength =
                IF sum < 0 THEN 0 ELSE IF sum > 10000 THEN 10000 ELSE sum

\* C4: the points of a live-counter response are one per non-blank
\* paragraph of the text split on blank lines, never none, with ids
\* 1, 2, ..., n in order of appearance.
C4_SequentialIds ==
    (ep = "counter" /\ resp.status = 200) =>
        LET points == resp.body.points IN
        /\ Len(points) >= 1
        /\ \A i \in 1..Len(points) : points[i].id = i

\* the fallback tips the thresholds call for, in the fixed order
TriggeredTips(scores) ==
    LET named == <<[m |-> "Coherence",
                    on |-> scores.coherence.k = "num" /\ scores.coherence.v < 75],
                   [m |-> "Relevance",
                    on |-> scores.relevance.k = "num" /\ scores.relevance.v < 80],
                   [m |-> "Evidence",
                    on |-> scores.evidenceStrength.k = "num"
                             /\ scores.evidenceStrength.v < 70],
                   [m |-> "Logic",
                    on |-> scores.fallacyPenalty.k = "num"
                             /\ scores.fallacyPenalty.v > 10]>>
        IsOn(x) == x.on
    IN  SelectSeq(named, IsOn)

FeedbackFailed(reply) ==
    reply.kind = "raise" \/ NoJsonReply(reply) \/ BadJsonReply(reply)

\* C5: on an LLM or parse failure the feedback endpoint returns type
\* "improvement", a message carrying the gap, and the tips triggered by
\* coherence < 0.75, relevance < 0.8, evidenceStrength < 0.7,
\* fallacyPenalty > 0.1 in that order cut to the first three, or the single
\* Overall tip when none triggers: always 1 to 3 tips.  For scores 0.5, 0.5,
\* 0.5, 0.3 with argumentStrength 0.5 and target 90 the gap is 40.
C5_FallbackTips ==
    (ep = "feedback" /\ FeedbackFailed(calls[1].result)) =>
        LET b == resp.body
            trig == TriggeredTips(req.scores)
        IN  /\ resp.status = 200
            /\ b.type = "improvement"
            /\ b.message.gap = calls[1].prompt.gap
            /\ Len(b.tips) \in 1..3
            /\ trig = <<>> => b.tips = <<OverallTip>>
            /\ trig # <<>> =>
                 /\ Len(b.tips) = (IF Len(trig) > 3 THEN 3 ELSE Len(trig))
                 /\ \A i \in 1..Len(b.tips) : b.tips[i].metric = trig[i].m
            /\ ( /\ req.scores.coherence = Num(50)
                 /\ req.scores.relevance = Num(50)
                 /\ req.scores.evidenceStrength = Num(50)
                 /\ req.scores.fallacyPenalty = Num(30)
                 /\ req.scores.argumentStrength = Num(500)
                 /\ req.target_score = 90 )
               => /\ b.message.gap = 40
                  /\ b.tips = <<CoherenceTip, RelevanceTip, EvidenceTip>>

\* the spec's example request met a failing LLM call
C5_Witness ==
    /\ ep = "feedback"
    /\ calls[1].result.kind = "raise"
    /\ req.scores.coherence = Num(50)
    /\ req.scores.relevance = Num(50)
    /\ req.scores.evidenceStrength = Num(50)
    /\ req.scores.fallacyPenalty = Num(30)
    /\ req.scores.argumentStrength = Num(500)
    /\ req.target_score = 90
    /\ Len(resp.body.tips) = 3
    /\ resp.body.message.gap = 40

\* the nearest integer to s/10, for s not ending in 5
Nearest(s) == (s + 5) \div 10

\* C6: the gap the feedback endpoint computes is target_score minus
\* argumentStrength * 100 rounded to the nearest integer.
C6_GapUsesRound ==
    (ep = "feedback" /\ req.scores.argumentStrength.k = "num") =>
        calls[1].prompt.gap
            = req.target_score - Nearest(req.scores.argumentStrength.v)

\* the summary rule as the specification words it
SummaryRule(content) ==
    LET dot == Find(content, <<".">>, 1)
        before == IF dot = 0 THEN content ELSE SubSeq(content, 1, dot - 1)
        first == Strip(before)
        words == SplitWs(first)
    IN  IF first = <<>> THEN Take(content, 150) \o <<".", ".", ".">>
        ELSE IF Len(words) > 25
             THEN Join(Take(words, 25), <<" ">>) \o <<".", ".", ".">>
             ELSE first \o <<".">>

\* C7: get_summary returns the first 25 words plus "..." of a first
\* sentence of more than 25 words, the first sentence plus "." otherwise,
\* and the first 150 characters plus "..." when there is no first sentence.
C7_SummaryRule ==
    ep = "summary" => resp.body.summary = SummaryRule(req.content)

\* C8: a failing generation call aborts the /api/debate request at that
\* call: it is the last call of the request, the request ends in an error
\* without payload, and a payload is returned only after all generation
\* calls succeeded.
C8_AllOrNothing ==
    ep = "debate" =>
        /\ \A i \in 1..Len(calls) :
             calls[i].result = Raised =>
                /\ i = Len(calls)
                /\ pc = "error"
        /\ pc = "error" => resp = ServerError
        /\ resp.status \in {0, 200, 500}
        /\ resp.status = 500 => pc = "error"
        /\ resp.status = 200 =>
             /\ Len(calls) = 6
             /\ \A i \in 1..6 : calls[i].result.kind = "content"
        /\ \A i, j \in 1..Len(calls) :
             i # j => <<calls[i].prompt.side, calls[i].prompt.tpl>>
                        # <<calls[j].prompt.side, calls[j].prompt.tpl>>

\* the third call failed after two texts had been generated
C8_Witness ==
    /\ ep = "debate"
    /\ pc = "error"
    /\ Len(calls) = 3
    /\ calls[1].result.kind = "content"
    /\ calls[2].result.kind = "content"
    /\ calls[3].result = Raised
    /\ resp = ServerError

\* C9: a round outside {opening, rebuttal, closing} builds the prompt that
\* round "closing" builds for the same topic, user_argument and
\* argument_history; the opening and rebuttal templates are chosen only by
\* the exact values "opening" and "rebuttal".
C9_UnknownRoundIsClosing ==
    ep = "counter" =>
        LET prompt == calls[1].prompt IN
        /\ Len(calls) = 1
        /\ req.round \notin {"opening", "rebuttal", "closing"} =>
             /\ prompt.tpl = "counter_closing"
             /\ prompt = CounterPrompt(req.topic, req.user_argument,
                                       "closing", req.argument_history)
        /\ prompt.tpl = "counter_opening" <=> req.round = "opening"
        /\ prompt.tpl = "counter_rebuttal" <=> req.round = "rebuttal"

\* an unknown round with two prior exchanges was answered
C9_Witness ==
    /\ ep = "counter"
    /\ req.round = "final"
    /\ Len(req.argument_history) = 2
    /\ calls[1].prompt.tpl = "counter_closing"
    /\ resp.status = 200

CallOrder ==
    << <<"Proposition", "opening">>, <<"Opposition", "opening">>,
       <<"Proposition", "rebuttal">>, <<"Opposition", "rebuttal">>,
       <<"Proposition", "closing">>, <<"Opposition", "closing">> >>

\* C10: within one /api/debate request the calls are issued in the order
\* prop-opening, opp-opening, prop-rebuttal, opp-rebuttal, prop-closing,
\* opp-closing, each only after the previous one returned; prop-rebuttal
\* receives the returned opp-opening, opp-rebuttal the returned
\* prop-opening, and no call is given a text not yet generated.
C10_CallOrder ==
    ep = "debate" =>
        /\ Len(calls) <= 6
        /\ \A i \in 1..Len(calls) :
             /\ <<calls[i].prompt.side, calls[i].prompt.tpl>> = CallOrder[i]
             /\ i < Len(calls) => calls[i].result.kind = "content"
             /\ \A j \in 1..Len(calls[i].prompt.history) :
                  calls[i].prompt.history[j] # "<unset>"
        /\ Len(calls) >= 3 => calls[3].prompt.history = calls[2].result.text
        /\ Len(calls) >= 4 => calls[4].prompt.history = calls[1].result.text

\* all six calls returned and the two openings differ
C10_Witness ==
    /\ ep = "debate"
    /\ pc = "return"
    /\ Len(calls) = 6
    /\ calls[1].result.text # calls[2].result.text
    /\ calls[3].prompt.history = calls[2].result.text

\* sub occurs in s as a contiguous piece
Contains(s, sub) == Find(s, sub, 1) # 0

\* C11 as stated: the history given to each closing call contains that
\* side's own opening, its own rebuttal and the opponent's rebuttal.
C11_Original ==
    (ep = "debate" /\ Len(calls) >= 5) =>
        LET h == calls[5].prompt.history IN
        /\ Contains(h, calls[1].result.text)
        /\ Contains(h, calls[3].result.text)
        /\ Contains(h, calls[4].result.text)

\* C11 amended: the history given to each closing call is that side's own
\* opening followed by the opponent's rebuttal, labelled "Your Opening" and
\* "Opponent's Rebuttal", and nothing else: the proposition closing gets
\* prop-opening and opp-rebuttal, the opposition closing opp-opening and
\* prop-rebuttal; the side's own rebuttal is not part of it.
C11_ClosingHistory ==
    ep = "debate" =>
        /\ Len(calls) >= 5 =>
             calls[5].prompt.history =
                 <<"Your Opening: ">> \o calls[1].result.text
                   \o <<"\n", "Opponent's Rebuttal: ">> \o calls[4].result.text
        /\ Len(calls) >= 6 =>
             calls[6].prompt.history =
                 <<"Your Opening: ">> \o calls[2].result.text
                   \o <<"\n", "Opponent's Rebuttal: ">> \o calls[3].result.text

\* both closings were called in a debate where each side's rebuttal differs
\* from its own opening and from the opponent's rebuttal
C11_Witness ==
    /\ ep = "debate"
    /\ Len(calls) = 6
    /\ calls[3].result.text # calls[1].result.text
    /\ calls[3].result.text # calls[4].result.text
    /\ calls[4].result.text # calls[2].result.text
    /\ ~Contains(calls[5].prompt.history, calls[3].result.text)
    /\ ~Contains(calls[6].prompt.history, calls[4].result.text)

====
